---- MODULE Spec2Model ----
(***************************************************************************)
(* Model of OpenVR-SpaceCalibrator/Calibration.cpp: the calibration tick   *)
(* state machine, the sample buffer, the rotation/translation solvers, the *)
(* quality gate and the profile application scan.                          *)
(*                                                                         *)
(* Number representation.  TLA+ has integers only, so the model fixes      *)
(* units in which every value it handles is an integer:                    *)
(*   time ................ milliseconds                                    *)
(*   positions ........... decimetres (0.1 m)                              *)
(*   calibratedTranslation centimetres, as in the program                  *)
(*   Euler angles ........ degrees, as in the program                      *)
(*   rotations ........... 3x3 matrices over {-1,0,1} (the 24 rotations    *)
(*                         that map the coordinate axes onto themselves)   *)
(* A quaternion is represented by the rotation matrix it encodes.          *)
(***************************************************************************)
EXTENDS Integers, Sequences, FiniteSets, TLC

(***************************************************************************)
(* Bounds of the model.                                                    *)
(***************************************************************************)
\* The largest value of CalCtx.SampleCount(), the configured number of samples
\* of one session, and the value it has unless the configuration is changed.
SampleCount == 3
\* vr::k_unMaxTrackedDeviceCount, the size of ctx.devicePoses.
MaxTrackedDeviceCount == 3

(***************************************************************************)
(* Program constants.                                                      *)
(***************************************************************************)
\* (time - ctx.timeLastTick) < 0.05
TickRateLimit == 50
\* (time - ctx.timeLastScan) >= 1.0 in state None
ScanIntervalNone == 1000
\* (time - ctx.timeLastScan) >= 0.1 in state Editing
ScanIntervalEditing == 100
\* vr::k_unTrackedDeviceIndex_Hmd
HmdIndex == 0

Devices == 0 .. (MaxTrackedDeviceCount - 1)

(***************************************************************************)
(* Math kernel: 3-vectors and 3x3 matrices (Eigen::Vector3d, Matrix3d).    *)
(***************************************************************************)
Idx == 1 .. 3

ZeroVec == <<0, 0, 0>>

Identity3 == << <<1, 0, 0>>, <<0, 1, 0>>, <<0, 0, 1>> >>

Dot(a, b) == a[1] * b[1] + a[2] * b[2] + a[3] * b[3]

SquaredNorm(a) == Dot(a, a)

VecAdd(a, b) == << a[1] + b[1], a[2] + b[2], a[3] + b[3] >>

VecSub(a, b) == << a[1] - b[1], a[2] - b[2], a[3] - b[3] >>

VecScale(k, a) == << k * a[1], k * a[2], k * a[3] >>

MatVec(m, v) == << Dot(m[1], v), Dot(m[2], v), Dot(m[3], v) >>

Column(m, j) == << m[1][j], m[2][j], m[3][j] >>

Transpose(m) == << Column(m, 1), Column(m, 2), Column(m, 3) >>

\* Row i of a * b.
MatMulRow(r, b) == << Dot(r, Column(b, 1)), Dot(r, Column(b, 2)), Dot(r, Column(b, 3)) >>

MatMul(a, b) == << MatMulRow(a[1], b), MatMulRow(a[2], b), MatMulRow(a[3], b) >>

MatSub(a, b) == << VecSub(a[1], b[1]), VecSub(a[2], b[2]), VecSub(a[3], b[3]) >>

Trace(m) == m[1][1] + m[2][2] + m[3][3]

Determinant(m) ==
    m[1][1] * (m[2][2] * m[3][3] - m[2][3] * m[3][2])
  - m[1][2] * (m[2][1] * m[3][3] - m[2][3] * m[3][1])
  + m[1][3] * (m[2][1] * m[3][2] - m[2][2] * m[3][1])

\* The proper rotations with entries in {-1,0,1}: one signed unit per row, the
\* rows a permutation of the axes, determinant +1.
RotGroup ==
  { m \in { << << IF p[1] = 1 THEN s[1] ELSE 0, IF p[1] = 2 THEN s[1] ELSE 0, IF p[1] = 3 THEN s[1] ELSE 0 >>,
                 << IF p[2] = 1 THEN s[2] ELSE 0, IF p[2] = 2 THEN s[2] ELSE 0, IF p[2] = 3 THEN s[2] ELSE 0 >>,
                 << IF p[3] = 1 THEN s[3] ELSE 0, IF p[3] = 2 THEN s[3] ELSE 0, IF p[3] = 3 THEN s[3] ELSE 0 >> >> :
              p \in { q \in [Idx -> Idx] : \A a, b \in Idx : a # b => q[a] # q[b] },
              s \in [Idx -> {-1, 1}] } :
      Determinant(m) = 1 }

\* cos and sin of a multiple of 90 degrees.
CosDeg(d) == CASE d % 360 = 0 -> 1 [] d % 360 = 180 -> -1 [] OTHER -> 0

SinDeg(d) == CASE d % 360 = 90 -> 1 [] d % 360 = 270 -> -1 [] OTHER -> 0

\* Eigen::AngleAxisd(angle, UnitZ / UnitY / UnitX) as a rotation matrix.
AngleAxisZ(d) == << <<CosDeg(d), -SinDeg(d), 0>>, <<SinDeg(d), CosDeg(d), 0>>, <<0, 0, 1>> >>

AngleAxisY(d) == << <<CosDeg(d), 0, SinDeg(d)>>, <<0, 1, 0>>, <<-SinDeg(d), 0, CosDeg(d)>> >>

AngleAxisX(d) == << <<1, 0, 0>>, <<0, CosDeg(d), -SinDeg(d)>>, <<0, SinDeg(d), CosDeg(d)>> >>

\* atan2(y, x) in degrees for y, x in {-1,0,1} with at most one of them
\* non-zero; the result is kept in (-180, 180].
Atan2Deg(y, x) ==
  CASE y = 0 /\ x >= 0 -> 0
    [] y = 0 /\ x < 0  -> 180
    [] y > 0 /\ x = 0  -> 90
    [] y < 0 /\ x = 0  -> -90

\* Matrix3d::eulerAngles(2, 1, 0): the angles (about Z, Y, X) with
\* rot = AngleAxisZ(e[1]) * AngleAxisY(e[2]) * AngleAxisX(e[3]), the first
\* angle brought into [0, 180].
EulerAngles(rot) ==
  LET r0raw == Atan2Deg(rot[2][1], rot[1][1])
      c2    == IF rot[3][3] # 0 \/ rot[3][2] # 0 THEN 1 ELSE 0
      flip  == r0raw < 0
      r0    == IF flip THEN r0raw + 180 ELSE r0raw
      r1    == IF flip THEN Atan2Deg(-rot[3][1], -c2) ELSE Atan2Deg(-rot[3][1], c2)
      s1    == SinDeg(r0)
      c1    == CosDeg(r0)
      r2    == Atan2Deg(s1 * rot[1][3] - c1 * rot[2][3], c1 * rot[2][2] - s1 * rot[1][2])
  IN  <<r0, r1, r2>>

\* VRRotationQuat: Euler (Z, Y, X) degrees to the rotation of the quaternion
\* AngleAxis(Z) * AngleAxis(Y) * AngleAxis(X).
VRRotationQuat(eulerdeg) ==
  MatMul(MatMul(AngleAxisZ(eulerdeg[1]), AngleAxisY(eulerdeg[2])), AngleAxisX(eulerdeg[3]))

\* quaternionRotateMatrix: the rotation matrix of a quaternion.  The model
\* keeps a unit quaternion as the rotation matrix it stands for (VRRotationQuat
\* builds it), since the coefficients of the quaternions of RotGroup are not
\* integers; the conversion then reads the matrix off.
quaternionRotateMatrix(quat) == quat

\* VRTranslationVec: centimetres to metres (transcm * 0.01), here decimetres.
VRTranslationVec(transcm) == << transcm[1] \div 10, transcm[2] \div 10, transcm[3] \div 10 >>

\* AxisFromRotationMatrix3
AxisFromRotationMatrix3(rot) ==
  << rot[3][2] - rot[2][3], rot[1][3] - rot[3][1], rot[2][1] - rot[1][2] >>

\* AngleFromRotationMatrix3(rot) > 0.4, i.e. acos((trace - 1) / 2) > 0.4:
\* (trace - 1) / 2 < cos(0.4) = 0.92106...
AngleAboveThreshold(rot) == 100000 * (Trace(rot) - 1) < 2 * 92106

\* v.norm() > 0.01
NormAboveThreshold(v) == 10000 * SquaredNorm(v) > 1

(***************************************************************************)
(* Pose, Sample, DSample.                                                  *)
(***************************************************************************)
\* struct Pose
Pose(rot, trans) == [rot |-> rot, trans |-> trans]

\* Sample(Pose ref, Pose target) : valid(true)
Sample(ref, target) == [ref |-> ref, target |-> target, valid |-> TRUE]

\* Sample() : valid(false)
InvalidSample == [ref |-> Pose(Identity3, ZeroVec), target |-> Pose(Identity3, ZeroVec), valid |-> FALSE]

\* Vector3d::normalize(). An axis along a coordinate axis becomes the signed
\* unit vector; a diagonal axis (+-1,+-1,+-1), of length sqrt(3), is kept as
\* the integer vector that names its direction.
Sign(a) == IF a > 0 THEN 1 ELSE IF a < 0 THEN -1 ELSE 0

Normalized(v) ==
  IF Cardinality({i \in Idx : v[i] # 0}) = 1
    THEN << Sign(v[1]), Sign(v[2]), Sign(v[3]) >>
    ELSE v

\* DeltaRotationSamples(s1, s2)
DeltaRotationSamples(s1, s2) ==
  LET dref    == MatMul(s1.ref.rot, Transpose(s2.ref.rot))
      dtarget == MatMul(s1.target.rot, Transpose(s2.target.rot))
      refAxis    == AxisFromRotationMatrix3(dref)
      targetAxis == AxisFromRotationMatrix3(dtarget)
  IN  [ valid  |-> /\ AngleAboveThreshold(dref)
                   /\ AngleAboveThreshold(dtarget)
                   /\ NormAboveThreshold(refAxis)
                   /\ NormAboveThreshold(targetAxis),
        ref    |-> Normalized(refAxis),
        target |-> Normalized(targetAxis) ]

\* The index pairs (i, j), j < i, that CalibrateRotation and
\* CalibrateTranslation loop over, in loop order.
RECURSIVE SamplePairs(_)
SamplePairs(n) ==
  IF n <= 1 THEN << >>
  ELSE SamplePairs(n - 1) \o [j \in 1 .. (n - 1) |-> <<n, j>>]

\* The sequence [k \in 1 .. n |-> ...] with its elements evaluated.
ToSeq(f) == f \o << >>

\* The deltas CalibrateRotation keeps (delta.valid), in loop order.
ValidDeltas(samples) ==
  LET pairs == SamplePairs(Len(samples))
  IN  SelectSeq(ToSeq([k \in 1 .. Len(pairs) |->
                         DeltaRotationSamples(samples[pairs[k][1]], samples[pairs[k][2]])]),
                LAMBDA d : d.valid)

RECURSIVE SeqSum(_)
SeqSum(s) == IF s = << >> THEN 0 ELSE Head(s) + SeqSum(Tail(s))

RECURSIVE VecSeqSum(_)
VecSeqSum(s) == IF s = << >> THEN ZeroVec ELSE VecAdd(Head(s), VecSeqSum(Tail(s)))

(***************************************************************************)
(* CalibrateRotation: Kabsch on the delta-rotation axes.                   *)
(*                                                                         *)
(* crossCV = refPoints^T * targetPoints of the centred axes.  It is the    *)
(* zero matrix when there are no deltas or when all reference axes (or all *)
(* target axes) coincide; its SVD then has U = V = I and rot = I.          *)
(* Otherwise rot = (V * i * U^T)^T is the rotation that carries the target *)
(* axes onto the reference axes with the least squared error.  On the axes *)
(* of this model that error is zero for a rotation of RotGroup, and the    *)
(* minimiser is unique as soon as the axes span three distinct directions. *)
(* With two directions crossCV has rank one and the SVD fixes the rotation *)
(* only up to a turn about the aligned axis: every exact aligner is then a *)
(* possible result.  The operator returns the set of possible results as   *)
(* Euler angles, rot.eulerAngles(2, 1, 0) in degrees.                      *)
(***************************************************************************)
CrossCVIsZero(deltas) ==
  \/ \A k, l \in 1 .. Len(deltas) : deltas[k].ref = deltas[l].ref
  \/ \A k, l \in 1 .. Len(deltas) : deltas[k].target = deltas[l].target

KabschRotations(deltas) ==
  IF CrossCVIsZero(deltas)
    THEN {Identity3}
    ELSE { r \in RotGroup :
             \A k \in 1 .. Len(deltas) : MatVec(r, deltas[k].target) = deltas[k].ref }

CalibrateRotation(samples) ==
  { EulerAngles(rot) : rot \in KabschRotations(ValidDeltas(samples)) }

(***************************************************************************)
(* CalibrateTranslation: least squares over the pairwise constraints       *)
(*   dQA * t = CA  and  dQB * t = CB,                                      *)
(* solved by SVD (the least-squares solution of least norm).  The solution *)
(* is searched on TransGrid; it is the program's solution whenever that    *)
(* lies on the grid.  The result is in centimetres (trans * 100.0).        *)
(***************************************************************************)
TransGrid == { <<a, b, c>> : a \in -2 .. 2, b \in -2 .. 2, c \in -2 .. 2 }

\* The (constants, coefficients) blocks pushed for the pair (i, j).
TranslationDeltas(samples, i, j) ==
  LET di  == VecSub(samples[i].ref.trans, samples[i].target.trans)
      dj  == VecSub(samples[j].ref.trans, samples[j].target.trans)
      QAi == Transpose(samples[i].ref.rot)
      QAj == Transpose(samples[j].ref.rot)
      QBi == Transpose(samples[i].target.rot)
      QBj == Transpose(samples[j].target.rot)
  IN  << [ first  |-> VecSub(MatVec(QAj, dj), MatVec(QAi, di)), second |-> MatSub(QAj, QAi) ],
         [ first  |-> VecSub(MatVec(QBj, dj), MatVec(QBi, di)), second |-> MatSub(QBj, QBi) ] >>

\* second^T * second, the block's share of coefficients^T * coefficients.
Gram(m) ==
  << << Dot(Column(m, 1), Column(m, 1)), Dot(Column(m, 1), Column(m, 2)), Dot(Column(m, 1), Column(m, 3)) >>,
     << Dot(Column(m, 2), Column(m, 1)), Dot(Column(m, 2), Column(m, 2)), Dot(Column(m, 2), Column(m, 3)) >>,
     << Dot(Column(m, 3), Column(m, 1)), Dot(Column(m, 3), Column(m, 2)), Dot(Column(m, 3), Column(m, 3)) >> >>

MatAdd(a, b) == << VecAdd(a[1], b[1]), VecAdd(a[2], b[2]), VecAdd(a[3], b[3]) >>

ZeroMat == << ZeroVec, ZeroVec, ZeroVec >>

RECURSIVE MatSeqSum(_)
MatSeqSum(s) == IF s = << >> THEN ZeroMat ELSE MatAdd(Head(s), MatSeqSum(Tail(s)))

\* The least-squares solutions of coefficients * t = constants on TransGrid and,
\* among them, the one of least norm.  |coefficients * t - constants|^2 is,
\* up to a term that does not depend on t, t.(M t) - 2 (v.t) with
\* M = coefficients^T * coefficients and v = coefficients^T * constants.
LeastSquares(M, v) ==
  LET scored == { << Dot(t, MatVec(M, t)) - 2 * Dot(v, t), SquaredNorm(t), t >> : t \in TransGrid }
      resids == { sc[1] : sc \in scored }
      least  == CHOOSE r \in resids : \A q \in resids : r <= q
      sols   == { sc \in scored : sc[1] = least }
      norms  == { sc[2] : sc \in sols }
      small  == CHOOSE r \in norms : \A q \in norms : r <= q
  IN  (CHOOSE sc \in sols : sc[2] = small)[3]

CalibrateTranslation(samples) ==
  LET pairs  == SamplePairs(Len(samples))
      blocks == ToSeq([k \in 1 .. Len(pairs) |->
                         TranslationDeltas(samples, pairs[k][1], pairs[k][2])])
      deltas == ToSeq([k \in 1 .. 2 * Len(pairs) |-> blocks[(k + 1) \div 2][2 - (k % 2)]])
      v      == VecSeqSum(ToSeq([k \in 1 .. Len(deltas) |->
                                   MatVec(Transpose(deltas[k].second), deltas[k].first)]))
      M      == MatSeqSum(ToSeq([k \in 1 .. Len(deltas) |-> Gram(deltas[k].second)]))
  IN  VecScale(10, LeastSquares(M, v))

(***************************************************************************)
(* Quality analyzer.                                                       *)
(***************************************************************************)
\* ApplyTransform(originalPose, vrTrans, rotMat)
ApplyTransform(originalPose, vrTrans, rotMat) ==
  Pose(MatMul(rotMat, originalPose.rot), VecAdd(vrTrans, MatVec(rotMat, originalPose.trans)))

ValidSamples(samples) == SelectSeq(samples, LAMBDA sm : sm.valid)

\* DeriveRefToTargetOffset. The program returns accum / sampleCount; the model
\* keeps the quotient as the pair (accum, sampleCount).
DeriveRefToTargetOffset(samples, vrTrans, vrRotQuat) ==
  LET rotMat == quaternionRotateMatrix(vrRotQuat)
      vs     == ValidSamples(samples)
      hmdSpace(sm) ==
        MatVec(Transpose(sm.ref.rot),
               VecSub(ApplyTransform(sm.target, vrTrans, rotMat).trans, sm.ref.trans))
  IN  [ accum |-> VecSeqSum(ToSeq([k \in 1 .. Len(vs) |-> hmdSpace(vs[k])])), sampleCount |-> Len(vs) ]

\* RetargetingErrorRMS. With the offset accum / n, the squared error of one
\* sample times n^2 is |n * updatedPose.trans - (ref.rot * accum + n * ref.trans)|^2,
\* so the returned sqrt(errorAccum / sampleCount) is sqrt(num / den) decimetres
\* with num the sum of those terms and den = n^2 * sampleCount.
RetargetingErrorRMS(samples, hmdToTargetPos, vrTrans, vrRotQuat) ==
  LET rotMat == quaternionRotateMatrix(vrRotQuat)
      vs     == ValidSamples(samples)
      n      == hmdToTargetPos.sampleCount
      err(sm) ==
        SquaredNorm(VecSub(VecScale(n, ApplyTransform(sm.target, vrTrans, rotMat).trans),
                           VecAdd(MatVec(sm.ref.rot, hmdToTargetPos.accum),
                                  VecScale(n, sm.ref.trans))))
  IN  [ num |-> SeqSum(ToSeq([k \in 1 .. Len(vs) |-> err(vs[k])])), den |-> n * n * Len(vs) ]

\* Fault: the threshold taken as 1.0, one metre.
ErrorAboveOneMetre(rms) == rms.num > 100 * rms.den

\* baseError > 0.1 (metres), i.e. more than one decimetre.
ErrorAboveThreshold(rms) == rms.num > rms.den

\* ComputeIndependence: whether the "nearly coplanar" message is logged, as
\* the set of possible answers.  The smallest principal variance of the
\* offset points is zero, below the 0.00005 threshold, when the points lie in
\* a plane; the answer is then TRUE.  When all points are zero (meanDist is
\* zero and the normalised points are not numbers) or the points are not
\* coplanar, the comparison depends on the eigen-solver's rounding and both
\* answers are possible.
ComputeIndependence(samples, vrTrans, vrRotQuat) ==
  LET rotMat == quaternionRotateMatrix(vrRotQuat)
      vs     == ValidSamples(samples)
      n      == Len(vs)
      points == ToSeq([k \in 1 .. n |->
                  VecSub(VecAdd(MatVec(rotMat, vs[k].target.trans), vrTrans), vs[k].ref.trans)])
      total  == VecSeqSum(points)
      c      == ToSeq([k \in 1 .. n |-> VecSub(VecScale(n, points[k]), total)])
      coplanar == \A i, j, k \in 1 .. n : Determinant(<<c[i], c[j], c[k]>>) = 0
      allZero  == \A k \in 1 .. n : points[k] = ZeroVec
  IN  IF coplanar /\ ~allZero THEN {TRUE} ELSE BOOLEAN

\* ComputeSensitivity returns reject = (baseError > 0.1).
ComputeSensitivity(samples, vrTrans, vrRotQuat) ==
  ErrorAboveThreshold(
    RetargetingErrorRMS(samples, DeriveRefToTargetOffset(samples, vrTrans, vrRotQuat),
                        vrTrans, vrRotQuat))

\* The messages ComputeSensitivity logs, the numbers they print left out.
SensitivityMessages(coplanar) ==
  << "HMD to target offset", "Position error (RMS error)",
     "Sensitivity rotation X (RMS error delta)", "Sensitivity rotation Y (RMS error delta)",
     "Sensitivity rotation Z (RMS error delta)" >>
  \o (IF coplanar THEN << "Calibration points are nearly coplanar. Try moving around more?" >>
      ELSE << >>)

(***************************************************************************)
(* State.                                                                  *)
(***************************************************************************)
VARIABLES
  \* CalibrationContext CalCtx
  state,                    \* CalibrationState: "None", "Editing", "Begin", "Rotation"
  referenceID, targetID,    \* device indices, -1 when unset
  sampleCount,              \* what CalCtx.SampleCount() returns: the configured number of samples
  devicePoses,              \* TrackedDevicePose_t per device
  timeLastTick, timeLastScan, wantedUpdateInterval,
  calibratedRotation,       \* Euler (Z, Y, X), degrees
  calibratedTranslation,    \* centimetres
  calibratedScale,
  validProfile, enabled,
  referenceTrackingSystem, targetTrackingSystem,
  chaperone,                \* [valid, autoApply, geometry (its size)]
  messages,                 \* CalCtx.messages, what CalCtx.Log appended
  progress,                 \* what CalCtx.Progress reported last
  \* static std::vector<Sample> samples of CalibrationTick
  samples,
  \* the tracking runtime
  vrAvailable,              \* vr::VRSystem() is not null
  deviceClass,              \* GetTrackedDeviceClass per device
  trackingSystemName,       \* Prop_TrackingSystemName_String per device, or PropError
  liveQuadCount,            \* quad count of the live collision bounds
  rig,                      \* how the user holds the two devices
  \* what the last call did to the collaborators
  call,                     \* [op, time]: the last call and its argument
  sent,                     \* the requests passed to Driver.SendBlocking, in order
  saved,                    \* SaveProfile was called
  chaperoneApplied,         \* ApplyChaperoneBounds was called
  scanInput,                \* what ScanAndApplyProfile read, when it ran
  solved,                   \* what the solvers and the quality analyzer returned, when they ran
  priorScan                 \* the scan of the call before, when that call and the last both scanned

ctxVars ==
  << state, referenceID, targetID, sampleCount, devicePoses, timeLastTick, timeLastScan,
     wantedUpdateInterval, calibratedRotation, calibratedTranslation, calibratedScale,
     validProfile, enabled, referenceTrackingSystem, targetTrackingSystem, chaperone,
     messages, progress >>

runtimeVars == << vrAvailable, deviceClass, trackingSystemName, liveQuadCount, rig >>

outVars == << call, sent, saved, chaperoneApplied, scanInput, solved, priorScan >>

vars == << ctxVars, samples, runtimeVars, outVars >>

(***************************************************************************)
(* The tracking runtime's answers.                                         *)
(***************************************************************************)
\* The tick times the host passes (milliseconds).
TickTimes == {0, 49, 50, 100, 150, 200, 1200}

\* The physical set-up: the target universe is the reference universe turned
\* by TrueRot and shifted by TrueTrans (decimetres); the reference device is
\* device 0 (the HMD), the target device is device 1.
TrueRot == AngleAxisZ(90)

TrueTrans == <<2, 0, 0>>

\* The pose, in the target universe, of a device at refPose in the reference
\* universe, displaced by drift.
InTargetUniverse(refPose, drift) ==
  Pose(MatMul(Transpose(TrueRot), refPose.rot),
       VecAdd(MatVec(Transpose(TrueRot), VecSub(refPose.trans, TrueTrans)), drift))

\* The pose pairs (reference, target) the runtime can report. Attached, the
\* two devices turn together; apart, neither turns and the target slides.
PosePairs(r) ==
  IF r = "attached"
    THEN { << rp, InTargetUniverse(rp, ZeroVec) >> :
             rp \in { Pose(Identity3, ZeroVec), Pose(AngleAxisX(90), ZeroVec),
                      Pose(AngleAxisY(90), ZeroVec) } }
    ELSE { << Pose(Identity3, ZeroVec), InTargetUniverse(Pose(Identity3, ZeroVec), d) >> :
             d \in { ZeroVec, <<3, 0, 0>> } }

TrackedPose(valid, pose) == [bPoseIsValid |-> valid, mDeviceToAbsoluteTracking |-> pose]

NoPose == TrackedPose(FALSE, Pose(Identity3, ZeroVec))

\* GetDeviceToAbsoluteTrackingPose: the arrays it can fill in, both devices
\* tracked or one of them lost.
TrackedAnswers(r) ==
  { [id \in Devices |-> CASE id = 0 -> TrackedPose(TRUE, pp[1])
                          [] id = 1 -> TrackedPose(TRUE, pp[2])
                          [] OTHER  -> NoPose] : pp \in PosePairs(r) }

LostAnswers ==
  { [id \in Devices |-> CASE id = 0 -> TrackedPose(v[1], Pose(Identity3, ZeroVec))
                          [] id = 1 -> TrackedPose(v[2], InTargetUniverse(Pose(Identity3, ZeroVec), ZeroVec))
                          [] OTHER  -> NoPose] :
      v \in { <<FALSE, TRUE>>, <<TRUE, FALSE>>, <<FALSE, FALSE>> } }

AttachedAnswers == TrackedAnswers("attached") \cup LostAnswers

ApartAnswers == TrackedAnswers("apart") \cup LostAnswers

PoseAnswers(r) == IF r = "attached" THEN AttachedAnswers ELSE ApartAnswers

PropError == "TrackedProp_Error"

\* GetTrackedDeviceClass / GetStringTrackedDeviceProperty: the device tables
\* the runtime can hold, as pairs (what it says of device 0, the tracking system
\* it names for device 1).  Device 2 is a second controller of the target system.
RuntimeAnswers ==
  { << <<"HMD", "oculus">>, "lighthouse" >>,
    << <<"HMD", "lighthouse">>, "lighthouse" >>,
    << <<"HMD", PropError>>, "lighthouse" >>,
    << <<"Invalid", "oculus">>, "lighthouse" >>,
    << <<"HMD", "oculus">>, "oculus" >>,
    << <<"HMD", "oculus">>, PropError >> }

RuntimeTables ==
  { [ class |-> [id \in Devices |-> IF id = 0 THEN a[1][1] ELSE IF id <= 2 THEN "Controller" ELSE "Invalid"],
      name  |-> [id \in Devices |-> IF id = 0 THEN a[1][2] ELSE IF id = 1 THEN a[2] ELSE "lighthouse"] ] :
      a \in RuntimeAnswers }

(***************************************************************************)
(* Initial state: the context as constructed, with or without a profile    *)
(* loaded from the configuration store, before any tick.                   *)
(***************************************************************************)
NoScan == << >>

NoSolve == << >>

InitContext ==
  /\ state \in {"None", "Editing"}
  /\ \E ids \in { <<0, 1>>, <<-1, 1>>, <<0, -1>> } :
       referenceID = ids[1] /\ targetID = ids[2]
  /\ sampleCount = SampleCount
  /\ devicePoses = [id \in Devices |-> NoPose]
  /\ timeLastTick = 0
  /\ timeLastScan = 0
  /\ wantedUpdateInterval = 1000
  /\ \/ /\ validProfile = FALSE
        /\ calibratedRotation = <<0, 0, 0>>
        /\ calibratedTranslation = <<0, 0, 0>>
     \/ /\ validProfile = TRUE
        /\ calibratedRotation = <<0, 90, 0>>
        /\ calibratedTranslation = <<10, 0, -10>>
  /\ calibratedScale = 1
  /\ enabled = FALSE
  /\ referenceTrackingSystem = "oculus"
  /\ targetTrackingSystem = "lighthouse"
  /\ messages = << >>
  /\ progress = <<0, 0>>
  /\ samples = << >>
  /\ call = [op |-> "InitCalibrator", time |-> 0]
  /\ sent = << >>
  /\ saved = FALSE
  /\ chaperoneApplied = FALSE
  /\ scanInput = NoScan
  /\ solved = NoSolve
  /\ priorScan = NoScan

\* The calibration state machine with the devices where the user put them.
Init ==
  /\ InitContext
  /\ chaperone = [valid |-> TRUE, autoApply |-> TRUE, geometry |-> 8]
  /\ vrAvailable \in BOOLEAN
  /\ deviceClass = [id \in Devices |-> IF id = 0 THEN "HMD" ELSE IF id <= 2 THEN "Controller" ELSE "Invalid"]
  /\ trackingSystemName = [id \in Devices |-> IF id = 0 THEN "oculus" ELSE "lighthouse"]
  /\ liveQuadCount = 0
  /\ rig \in {"attached", "apart"}

(***************************************************************************)
(* Collaborators.                                                          *)
(***************************************************************************)
\* CalCtx.Log(text): append to CalCtx.messages.
Log(log, texts) == log \o texts

\* ResetAndDisableOffsets(id): the request it sends.
ResetAndDisableOffsets(id) ==
  [id |-> id, enabled |-> FALSE, translation |-> ZeroVec, rotation |-> Identity3, scale |-> 1]

\* What the calls of one operation did when it sent nothing, saved nothing
\* and left the chaperone alone.
Quiet(op, time) ==
  /\ call' = [op |-> op, time |-> time]
  /\ sent' = << >>
  /\ saved' = FALSE
  /\ chaperoneApplied' = FALSE
  /\ scanInput' = NoScan
  /\ solved' = NoSolve
  /\ priorScan' = NoScan

(***************************************************************************)
(* StartCalibration                                                        *)
(***************************************************************************)
StartCalibration ==
  /\ state' = "Begin"
  /\ wantedUpdateInterval' = 0
  /\ messages' = << >>
  /\ Quiet("StartCalibration", 0)
  /\ UNCHANGED << referenceID, targetID, sampleCount, devicePoses, timeLastTick, timeLastScan,
                  calibratedRotation, calibratedTranslation, calibratedScale, validProfile,
                  enabled, referenceTrackingSystem, targetTrackingSystem, chaperone, progress,
                  samples, runtimeVars >>

(***************************************************************************)
(* ScanAndApplyProfile                                                     *)
(***************************************************************************)
\* Fault: the device loop without the assignment ctx.enabled = false on an
\* HMD of another tracking system.
RECURSIVE ScanDevicesKeepsEnabled(_, _, _)
ScanDevicesKeepsEnabled(id, en, reqs) ==
  IF id >= MaxTrackedDeviceCount THEN [enabled |-> en, sent |-> reqs]
  ELSE IF deviceClass[id] = "Invalid" THEN ScanDevicesKeepsEnabled(id + 1, en, reqs)
  ELSE IF ~en \/ trackingSystemName[id] = PropError \/ id = HmdIndex
            \/ trackingSystemName[id] # targetTrackingSystem
    THEN ScanDevicesKeepsEnabled(id + 1, en, Append(reqs, ResetAndDisableOffsets(id)))
  ELSE ScanDevicesKeepsEnabled(id + 1, en,
                   Append(reqs, [ id          |-> id,
                                  enabled     |-> TRUE,
                                  translation |-> VRTranslationVec(calibratedTranslation),
                                  rotation    |-> VRRotationQuat(calibratedRotation),
                                  scale       |-> calibratedScale ]))

\* Fault: the device loop without the comparison of a device's tracking system
\* with ctx.targetTrackingSystem.
RECURSIVE ScanDevicesTargetUnchecked(_, _, _)
ScanDevicesTargetUnchecked(id, en, reqs) ==
  IF id >= MaxTrackedDeviceCount THEN [enabled |-> en, sent |-> reqs]
  ELSE IF deviceClass[id] = "Invalid" THEN ScanDevicesTargetUnchecked(id + 1, en, reqs)
  ELSE IF ~en THEN ScanDevicesTargetUnchecked(id + 1, en, Append(reqs, ResetAndDisableOffsets(id)))
  ELSE IF trackingSystemName[id] = PropError
    THEN ScanDevicesTargetUnchecked(id + 1, en, Append(reqs, ResetAndDisableOffsets(id)))
  ELSE IF id = HmdIndex
    THEN ScanDevicesTargetUnchecked(id + 1, trackingSystemName[id] = referenceTrackingSystem,
                                    Append(reqs, ResetAndDisableOffsets(id)))
  ELSE ScanDevicesTargetUnchecked(id + 1, en,
                   Append(reqs, [ id          |-> id,
                                  enabled     |-> TRUE,
                                  translation |-> VRTranslationVec(calibratedTranslation),
                                  rotation    |-> VRRotationQuat(calibratedRotation),
                                  scale       |-> calibratedScale ]))

\* The device loop from device id on, with ctx.enabled = en and the requests
\* reqs sent so far: [enabled, sent] when the loop ends.
RECURSIVE ScanDevices(_, _, _)
ScanDevices(id, en, reqs) ==
  IF id >= MaxTrackedDeviceCount THEN [enabled |-> en, sent |-> reqs]
  ELSE IF deviceClass[id] = "Invalid" THEN ScanDevices(id + 1, en, reqs)
  ELSE IF ~en THEN ScanDevices(id + 1, en, Append(reqs, ResetAndDisableOffsets(id)))
  ELSE IF trackingSystemName[id] = PropError
    THEN ScanDevices(id + 1, en, Append(reqs, ResetAndDisableOffsets(id)))
  ELSE IF id = HmdIndex
    THEN ScanDevices(id + 1, trackingSystemName[id] = referenceTrackingSystem,
                     Append(reqs, ResetAndDisableOffsets(id)))
  ELSE IF trackingSystemName[id] # targetTrackingSystem
    THEN ScanDevices(id + 1, en, Append(reqs, ResetAndDisableOffsets(id)))
  ELSE ScanDevices(id + 1, en,
                   Append(reqs, [ id          |-> id,
                                  enabled     |-> TRUE,
                                  translation |-> VRTranslationVec(calibratedTranslation),
                                  rotation    |-> VRRotationQuat(calibratedRotation),
                                  scale       |-> calibratedScale ]))

\* Fault: the live quad count is not compared with the stored geometry.
ChaperoneReapplyUncompared(en) == en /\ chaperone.valid /\ chaperone.autoApply

\* The condition under which the scan calls ApplyChaperoneBounds, ctx.enabled
\* being en after the device loop.
ChaperoneReapply(en) ==
  /\ en /\ chaperone.valid /\ chaperone.autoApply
  /\ liveQuadCount # chaperone.geometry

\* Fault: ctx.enabled = ctx.validProfile placed after the device loop, which
\* then runs on the ctx.enabled the call found.
ScanAndApplyProfileLateEnable ==
  LET loop == ScanDevices(0, enabled, << >>)
  IN  [ enabled |-> validProfile, sent |-> loop.sent, apply |-> ChaperoneReapply(validProfile) ]

\* ScanAndApplyProfile(ctx): ctx.enabled after the scan, the requests sent and
\* whether ApplyChaperoneBounds was called.
ScanAndApplyProfile ==
  LET loop == ScanDevices(0, validProfile, << >>)
  IN  [ enabled |-> loop.enabled, sent |-> loop.sent, apply |-> ChaperoneReapply(loop.enabled) ]

\* What the scan reads: the context fields and the runtime's answers.
ScanReads ==
  << [ validProfile            |-> validProfile,
       referenceTrackingSystem |-> referenceTrackingSystem,
       targetTrackingSystem    |-> targetTrackingSystem,
       calibratedRotation      |-> calibratedRotation,
       calibratedTranslation   |-> calibratedTranslation,
       calibratedScale         |-> calibratedScale,
       deviceClass             |-> deviceClass,
       trackingSystemName      |-> trackingSystemName,
       chaperone               |-> chaperone,
       liveQuadCount           |-> liveQuadCount ] >>

\* ApplyChaperoneBounds: the stored geometry becomes the live one
\* (SetWorkingCollisionBoundsInfo, CommitWorkingCopy(Live)).
ApplyChaperoneBounds == chaperone.geometry

\* The state after ScanAndApplyProfile(ctx); ctx.timeLastScan = time.
ScanStep(time) ==
  LET r == ScanAndApplyProfile
  IN  /\ enabled' = r.enabled
      /\ sent' = r.sent
      /\ chaperoneApplied' = r.apply
      /\ liveQuadCount' = IF r.apply THEN ApplyChaperoneBounds ELSE liveQuadCount
      /\ scanInput' = ScanReads
      /\ priorScan' = IF scanInput = NoScan THEN NoScan
                      ELSE << [reads |-> scanInput[1], sent |-> sent] >>
      /\ timeLastScan' = time

NoScanStep ==
  /\ sent' = << >>
  /\ chaperoneApplied' = FALSE
  /\ scanInput' = NoScan
  /\ priorScan' = NoScan
  /\ UNCHANGED << enabled, liveQuadCount, timeLastScan >>

(***************************************************************************)
(* CalibrationTick(time), one action for each way through it.              *)
(***************************************************************************)
\* if (!vr::VRSystem()) return;
TickNoRuntime(time) ==
  /\ ~vrAvailable
  /\ Quiet("CalibrationTick", time)
  /\ UNCHANGED << ctxVars, samples, runtimeVars >>

\* Fault: the limit taken as 0.005, five milliseconds.
RateLimitedFiveMs(time) == (time - timeLastTick) < 5

RateLimited(time) == (time - timeLastTick) < TickRateLimit

\* if ((time - ctx.timeLastTick) < 0.05) return;
TickRateLimited(time) ==
  /\ vrAvailable
  /\ RateLimited(time)
  /\ Quiet("CalibrationTick", time)
  /\ UNCHANGED << ctxVars, samples, runtimeVars >>

\* The tick goes on: ctx.timeLastTick = time and ctx.devicePoses is refreshed
\* with the runtime's answer poses.
TickProceeds(time, poses) ==
  /\ vrAvailable
  /\ ~RateLimited(time)
  /\ poses \in PoseAnswers(rig)
  /\ timeLastTick' = time
  /\ devicePoses' = poses
  /\ call' = [op |-> "CalibrationTick", time |-> time]

ScanDue(time, interval) == (time - timeLastScan) >= interval

\* state None
TickNone(time, poses) ==
  /\ state = "None"
  /\ TickProceeds(time, poses)
  /\ wantedUpdateInterval' = 1000
  /\ IF ScanDue(time, ScanIntervalNone) THEN ScanStep(time) ELSE NoScanStep
  /\ saved' = FALSE
  /\ solved' = NoSolve
  /\ UNCHANGED << state, referenceID, targetID, sampleCount, calibratedRotation, calibratedTranslation,
                  calibratedScale, validProfile, referenceTrackingSystem,
                  targetTrackingSystem, chaperone, messages, progress, samples,
                  vrAvailable, deviceClass, trackingSystemName, rig >>

\* state Editing
TickEditing(time, poses) ==
  /\ state = "Editing"
  /\ TickProceeds(time, poses)
  /\ wantedUpdateInterval' = 100
  /\ IF ScanDue(time, ScanIntervalEditing) THEN ScanStep(time) ELSE NoScanStep
  /\ saved' = FALSE
  /\ solved' = NoSolve
  /\ UNCHANGED << state, referenceID, targetID, sampleCount, calibratedRotation, calibratedTranslation,
                  calibratedScale, validProfile, referenceTrackingSystem,
                  targetTrackingSystem, chaperone, messages, progress, samples,
                  vrAvailable, deviceClass, trackingSystemName, rig >>

\* state Begin: the messages it logs and whether the session may start.
BeginMessages(poses) ==
  << "Reference device ID: %d, serial: %s", "Target device ID: %d, serial %s" >>
  \o (IF referenceID = -1 THEN << "Missing reference device" >>
      ELSE IF ~poses[referenceID].bPoseIsValid THEN << "Reference device is not tracking" >>
      ELSE << >>)
  \o (IF targetID = -1 THEN << "Missing target device" >>
      ELSE IF ~poses[targetID].bPoseIsValid THEN << "Target device is not tracking" >>
      ELSE << >>)

\* Fault: the target's pose is not looked at.
BeginOkTargetPoseUnchecked(poses) ==
  /\ referenceID # -1 /\ poses[referenceID].bPoseIsValid
  /\ targetID # -1

BeginOk(poses) ==
  /\ referenceID # -1 /\ poses[referenceID].bPoseIsValid
  /\ targetID # -1 /\ poses[targetID].bPoseIsValid

\* state Begin, !ok
TickBeginAbort(time, poses) ==
  /\ state = "Begin"
  /\ TickProceeds(time, poses)
  /\ ~BeginOk(poses)
  /\ state' = "None"
  /\ messages' = Log(messages, BeginMessages(poses) \o << "Aborting calibration!" >>)
  /\ NoScanStep
  /\ saved' = FALSE
  /\ solved' = NoSolve
  /\ UNCHANGED << referenceID, targetID, sampleCount, wantedUpdateInterval, calibratedRotation,
                  calibratedTranslation, calibratedScale, validProfile,
                  referenceTrackingSystem, targetTrackingSystem, chaperone, progress,
                  samples, vrAvailable, deviceClass, trackingSystemName, rig >>

\* state Begin, ok
TickBeginStart(time, poses) ==
  /\ state = "Begin"
  /\ TickProceeds(time, poses)
  /\ BeginOk(poses)
  /\ sent' = << ResetAndDisableOffsets(targetID) >>
  /\ state' = "Rotation"
  /\ wantedUpdateInterval' = 0
  /\ messages' = Log(messages, BeginMessages(poses) \o << "Starting calibration..." >>)
  /\ saved' = FALSE
  /\ chaperoneApplied' = FALSE
  /\ scanInput' = NoScan
  /\ priorScan' = NoScan
  /\ solved' = NoSolve
  /\ UNCHANGED << referenceID, targetID, sampleCount, timeLastScan, calibratedRotation,
                  calibratedTranslation, calibratedScale, validProfile, enabled,
                  referenceTrackingSystem, targetTrackingSystem, chaperone, progress,
                  samples, vrAvailable, deviceClass, trackingSystemName, liveQuadCount, rig >>

\* Fault: only the reference pose decides whether the sample is taken.
CollectSampleReferenceOnly(poses) ==
  LET reference == poses[referenceID]
      target    == poses[targetID]
      ok        == reference.bPoseIsValid
  IN  [ sample   |-> IF ok THEN Sample(reference.mDeviceToAbsoluteTracking,
                                       target.mDeviceToAbsoluteTracking)
                     ELSE InvalidSample,
        messages |-> IF ok THEN << >>
                     ELSE << "Reference device is not tracking", "Aborting calibration!" >> ]

\* CollectSample(ctx): the sample and the messages logged.
CollectSample(poses) ==
  LET reference == poses[referenceID]
      target    == poses[targetID]
      ok        == reference.bPoseIsValid /\ target.bPoseIsValid
      logged    == (IF ~reference.bPoseIsValid THEN << "Reference device is not tracking" >> ELSE << >>)
                   \o (IF ~target.bPoseIsValid THEN << "Target device is not tracking" >> ELSE << >>)
                   \o (IF ~ok THEN << "Aborting calibration!" >> ELSE << >>)
  IN  [ sample   |-> IF ok THEN Sample(reference.mDeviceToAbsoluteTracking,
                                       target.mDeviceToAbsoluteTracking)
                     ELSE InvalidSample,
        messages |-> logged ]

\* state Rotation, the sample is not valid
TickSampleInvalid(time, poses) ==
  /\ state = "Rotation"
  /\ TickProceeds(time, poses)
  /\ LET c == CollectSample(poses)
     IN  /\ ~c.sample.valid
         /\ state' = "None"
         /\ messages' = Log(messages, c.messages)
  /\ NoScanStep
  /\ saved' = FALSE
  /\ solved' = NoSolve
  /\ UNCHANGED << referenceID, targetID, sampleCount, wantedUpdateInterval, calibratedRotation,
                  calibratedTranslation, calibratedScale, validProfile,
                  referenceTrackingSystem, targetTrackingSystem, chaperone, progress,
                  samples, vrAvailable, deviceClass, trackingSystemName, rig >>

\* Fault: the buffer's size is compared with SampleCount() before the
\* push_back, so the sample that fills the buffer is buffered without a solve.
TickSampleCollectedComparedEarly(time, poses) ==
  /\ state = "Rotation"
  /\ TickProceeds(time, poses)
  /\ LET c   == CollectSample(poses)
         buf == Append(samples, c.sample)
     IN  /\ c.sample.valid
         /\ Len(samples) # sampleCount
         /\ samples' = buf
         /\ progress' = << Len(buf), sampleCount >>
  /\ NoScanStep
  /\ saved' = FALSE
  /\ solved' = NoSolve
  /\ UNCHANGED << state, referenceID, targetID, sampleCount, wantedUpdateInterval, calibratedRotation,
                  calibratedTranslation, calibratedScale, validProfile,
                  referenceTrackingSystem, targetTrackingSystem, chaperone, messages,
                  vrAvailable, deviceClass, trackingSystemName, rig >>

\* state Rotation, the sample is buffered and the buffer is not SampleCount() long
TickSampleCollected(time, poses) ==
  /\ state = "Rotation"
  /\ TickProceeds(time, poses)
  /\ LET c   == CollectSample(poses)
         buf == Append(samples, c.sample)
     IN  /\ c.sample.valid
         /\ Len(buf) # sampleCount
         /\ samples' = buf
         /\ progress' = << Len(buf), sampleCount >>
  /\ NoScanStep
  /\ saved' = FALSE
  /\ solved' = NoSolve
  /\ UNCHANGED << state, referenceID, targetID, sampleCount, wantedUpdateInterval, calibratedRotation,
                  calibratedTranslation, calibratedScale, validProfile,
                  referenceTrackingSystem, targetTrackingSystem, chaperone, messages,
                  vrAvailable, deviceClass, trackingSystemName, rig >>

\* The samples with the target poses turned by the solved rotation.
RotateTargets(buf, vrRotQuat) ==
  LET rotMat == quaternionRotateMatrix(vrRotQuat)
  IN  ToSeq([k \in 1 .. Len(buf) |->
        [ buf[k] EXCEPT !.target = Pose(MatMul(rotMat, buf[k].target.rot),
                                        MatVec(rotMat, buf[k].target.trans)) ]])

\* The messages logged from the "\n" of the full buffer to the end of
\* ComputeSensitivity, the numbers they print left out.
SolveMessages(coplanar) ==
  << "\n", "Got %zd samples with %zd delta samples",
     "Calibrated rotation: yaw=%.2f pitch=%.2f roll=%.2f",
     "Calibrated translation x=%.2f y=%.2f z=%.2f" >>
  \o SensitivityMessages(coplanar)

\* The solve of a full buffer, from CalibrateRotation to the return of
\* ComputeSensitivity: the set of its possible outcomes.
Solve(buf) ==
  UNION { LET vrRotQuat == VRRotationQuat(euler)
              trans     == CalibrateTranslation(RotateTargets(buf, vrRotQuat))
              vrTrans   == VRTranslationVec(trans)
          IN  { [ calibratedRotation    |-> euler,
                  calibratedTranslation |-> trans,
                  vrTrans               |-> vrTrans,
                  vrRotQuat             |-> vrRotQuat,
                  deltas                |-> Len(ValidDeltas(buf)),
                  baseError             |-> RetargetingErrorRMS(buf, DeriveRefToTargetOffset(buf, vrTrans, vrRotQuat),
                                                                vrTrans, vrRotQuat),
                  reject                |-> ComputeSensitivity(buf, vrTrans, vrRotQuat),
                  messages              |-> SolveMessages(coplanar) ] :
                coplanar \in ComputeIndependence(buf, vrTrans, vrRotQuat) } :
          euler \in CalibrateRotation(buf) }

\* SaveProfile(ctx) was called.
SaveProfile == TRUE

\* state Rotation, the buffer is full and ComputeSensitivity rejects
TickReject(time, poses) ==
  /\ state = "Rotation"
  /\ TickProceeds(time, poses)
  /\ LET c   == CollectSample(poses)
         buf == Append(samples, c.sample)
     IN  /\ c.sample.valid
         /\ Len(buf) = sampleCount
         /\ progress' = << Len(buf), sampleCount >>
         /\ \E s \in Solve(buf) :
              /\ s.reject
              /\ solved' = << s >>
              /\ messages' = Log(messages, s.messages \o << "\n\n!!! Rejecting low quality calibration !!!" >>)
  /\ state' = "None"
  /\ samples' = << >>
  /\ NoScanStep
  /\ saved' = FALSE
  /\ UNCHANGED << referenceID, targetID, sampleCount, wantedUpdateInterval, calibratedRotation,
                  calibratedTranslation, calibratedScale, validProfile,
                  referenceTrackingSystem, targetTrackingSystem, chaperone,
                  vrAvailable, deviceClass, trackingSystemName, rig >>

\* Fault: the request of the commit copied from ResetAndDisableOffsets with
\* the enabled flag left false.
CommitRequestDisabled(vrTrans, vrRotQuat) ==
  [id |-> targetID, enabled |-> FALSE, translation |-> vrTrans, rotation |-> vrRotQuat]

\* The request of the commit.  Its initialiser list stops before scale: the
\* request names none.
CommitRequest(vrTrans, vrRotQuat) ==
  [id |-> targetID, enabled |-> TRUE, translation |-> vrTrans, rotation |-> vrRotQuat]

\* state Rotation, the buffer is full and the solution is committed
TickCommit(time, poses) ==
  /\ state = "Rotation"
  /\ TickProceeds(time, poses)
  /\ LET c   == CollectSample(poses)
         buf == Append(samples, c.sample)
     IN  /\ c.sample.valid
         /\ Len(buf) = sampleCount
         /\ progress' = << Len(buf), sampleCount >>
         /\ \E s \in Solve(buf) :
              /\ ~s.reject
              /\ solved' = << s >>
              /\ calibratedRotation' = s.calibratedRotation
              /\ calibratedTranslation' = s.calibratedTranslation
              /\ sent' = << CommitRequest(s.vrTrans, s.vrRotQuat) >>
              /\ messages' = Log(messages, s.messages \o << "Final rotation: ", "Finished calibration, profile saved" >>)
  /\ validProfile' = TRUE
  /\ saved' = SaveProfile
  /\ state' = "None"
  /\ samples' = << >>
  /\ chaperoneApplied' = FALSE
  /\ scanInput' = NoScan
  /\ priorScan' = NoScan
  /\ UNCHANGED << referenceID, targetID, sampleCount, timeLastScan, wantedUpdateInterval, calibratedScale,
                  enabled, referenceTrackingSystem, targetTrackingSystem, chaperone,
                  vrAvailable, deviceClass, trackingSystemName, liveQuadCount, rig >>

\* Every array of poses the runtime can answer with, however the devices are held.
AllPoseAnswers == AttachedAnswers \cup ApartAnswers

\* CalibrationTick(time)
CalibrationTick(time, poses) ==
  \/ TickNoRuntime(time)
  \/ TickRateLimited(time)
  \/ TickNone(time, poses)
  \/ TickEditing(time, poses)
  \/ TickBeginAbort(time, poses)
  \/ TickBeginStart(time, poses)
  \/ TickSampleInvalid(time, poses)
  \/ TickSampleCollected(time, poses)
  \/ TickReject(time, poses)
  \/ TickCommit(time, poses)

Next ==
  \/ StartCalibration
  \/ \E time \in TickTimes : TickNoRuntime(time)
  \/ \E time \in TickTimes : TickRateLimited(time)
  \/ \E time \in TickTimes, poses \in AllPoseAnswers : TickNone(time, poses)
  \/ \E time \in TickTimes, poses \in AllPoseAnswers : TickEditing(time, poses)
  \/ \E time \in TickTimes, poses \in AllPoseAnswers : TickBeginAbort(time, poses)
  \/ \E time \in TickTimes, poses \in AllPoseAnswers : TickBeginStart(time, poses)
  \/ \E time \in TickTimes, poses \in AllPoseAnswers : TickSampleInvalid(time, poses)
  \/ \E time \in TickTimes, poses \in AllPoseAnswers : TickSampleCollected(time, poses)
  \/ \E time \in TickTimes, poses \in AllPoseAnswers : TickReject(time, poses)
  \/ \E time \in TickTimes, poses \in AllPoseAnswers : TickCommit(time, poses)

Spec == Init /\ [][Next]_vars

(***************************************************************************)
(* Profile application: the ticks of the states None and Editing against a *)
(* runtime whose devices and chaperone change between the ticks.           *)
(***************************************************************************)
ScanTimes == {100, 200, 1200, 2200}

\* Both devices tracked and at rest.
RestPoses ==
  [id \in Devices |-> CASE id = 0 -> TrackedPose(TRUE, Pose(Identity3, ZeroVec))
                        [] id = 1 -> TrackedPose(TRUE, InTargetUniverse(Pose(Identity3, ZeroVec), ZeroVec))
                        [] OTHER  -> NoPose]

QuadCounts == {0, 8}

InitScan ==
  /\ InitContext
  /\ referenceID = 0
  /\ targetID = 1
  /\ \E valid, autoApply \in BOOLEAN :
       chaperone = [valid |-> valid, autoApply |-> autoApply, geometry |-> IF valid THEN 8 ELSE 0]
  /\ vrAvailable = TRUE
  /\ \E table \in RuntimeTables :
       /\ deviceClass = table.class
       /\ trackingSystemName = table.name
  /\ liveQuadCount \in QuadCounts
  /\ rig = "apart"

\* The devices change: one is switched off or on, the HMD is swapped.
RuntimeChange(table) ==
  /\ deviceClass' = table.class
  /\ trackingSystemName' = table.name
  /\ UNCHANGED << ctxVars, samples, vrAvailable, liveQuadCount, rig, outVars >>

\* The runtime or another application replaces the live collision bounds.
ChaperoneChange(quadCount) ==
  /\ liveQuadCount' = quadCount
  /\ UNCHANGED << ctxVars, samples, vrAvailable, deviceClass, trackingSystemName, rig, outVars >>

\* LoadChaperoneBounds: the live geometry is stored.
LoadChaperoneBounds ==
  /\ vrAvailable
  /\ chaperone' = [chaperone EXCEPT !.geometry = liveQuadCount, !.valid = TRUE]
  /\ Quiet("LoadChaperoneBounds", 0)
  /\ UNCHANGED << state, referenceID, targetID, sampleCount, devicePoses, timeLastTick, timeLastScan,
                  wantedUpdateInterval, calibratedRotation, calibratedTranslation,
                  calibratedScale, validProfile, enabled, referenceTrackingSystem,
                  targetTrackingSystem, messages, progress, samples, runtimeVars >>

NextScan ==
  \/ \E time \in ScanTimes : TickNone(time, RestPoses)
  \/ \E time \in ScanTimes : TickEditing(time, RestPoses)
  \/ \E table \in RuntimeTables : RuntimeChange(table)
  \/ \E quadCount \in QuadCounts : ChaperoneChange(quadCount)
  \/ LoadChaperoneBounds

SpecScan == InitScan /\ [][NextScan]_vars

(***************************************************************************)
(* Sessions under a configuration that changes: between two sessions the   *)
(* user picks another number of samples, which CalCtx.SampleCount() then   *)
(* returns.                                                                *)
(***************************************************************************)
\* The configuration is changed while no session runs.
SetSampleCount(n) ==
  /\ state \in {"None", "Editing"}
  /\ n # sampleCount
  /\ sampleCount' = n
  /\ Quiet("SetSampleCount", 0)
  /\ UNCHANGED << state, referenceID, targetID, devicePoses, timeLastTick, timeLastScan,
                  wantedUpdateInterval, calibratedRotation, calibratedTranslation,
                  calibratedScale, validProfile, enabled, referenceTrackingSystem,
                  targetTrackingSystem, chaperone, messages, progress, samples,
                  runtimeVars >>

\* Both devices assigned, no profile yet, the runtime available.
InitConfig ==
  /\ Init
  /\ state = "None"
  /\ referenceID = 0 /\ targetID = 1
  /\ ~validProfile
  /\ vrAvailable

NextConfig ==
  \/ StartCalibration
  \/ \E n \in 1 .. SampleCount : SetSampleCount(n)
  \/ \E time \in TickTimes : TickRateLimited(time)
  \/ \E time \in TickTimes, poses \in AllPoseAnswers : TickNone(time, poses)
  \/ \E time \in TickTimes, poses \in AllPoseAnswers : TickBeginAbort(time, poses)
  \/ \E time \in TickTimes, poses \in AllPoseAnswers : TickBeginStart(time, poses)
  \/ \E time \in TickTimes, poses \in AllPoseAnswers : TickSampleInvalid(time, poses)
  \/ \E time \in TickTimes, poses \in AllPoseAnswers : TickSampleCollected(time, poses)
  \/ \E time \in TickTimes, poses \in AllPoseAnswers : TickReject(time, poses)
  \/ \E time \in TickTimes, poses \in AllPoseAnswers : TickCommit(time, poses)

SpecConfig == InitConfig /\ [][NextConfig]_vars

(***************************************************************************)
(* Sessions under a tick source that keeps calling: the runtime stays      *)
(* available, the ticks come in order and at most MaxTickGap apart, the    *)
(* configured number of samples stays as it is, and StartCalibration is    *)
(* called only while no session runs.  Only the ticks of the sessions are  *)
(* followed.  The clock stops at MaxLiveTime, so a session is started only *)
(* when the time left is enough for its ticks.                             *)
(***************************************************************************)
\* The ticks that get past the rate limit come exactly at the limit.
MaxTickGap == TickRateLimit

\* Time for a session that is aborted after its first sample and for a whole
\* session after it.
MaxLiveTime == MaxTickGap * 3 + MaxTickGap * (SampleCount + 1)

LiveTimes == { (TickRateLimit \div 2) * k : k \in 0 .. (MaxLiveTime \div (TickRateLimit \div 2)) }

\* The tick source calls with time next.
LiveDue(time) ==
  /\ time >= timeLastTick
  /\ time <= timeLastTick + MaxTickGap
  /\ time <= MaxLiveTime

InitLive ==
  /\ Init
  /\ state = "None"
  /\ referenceID = 0 /\ targetID = 1
  /\ ~validProfile
  /\ vrAvailable

LiveStartCalibration ==
  /\ state = "None"
  /\ timeLastTick + MaxTickGap * (sampleCount + 1) <= MaxLiveTime
  /\ StartCalibration

LiveTickRateLimited(time) == LiveDue(time) /\ TickRateLimited(time)

LiveTickBeginAbort(time, poses) == LiveDue(time) /\ TickBeginAbort(time, poses)

LiveTickBeginStart(time, poses) == LiveDue(time) /\ TickBeginStart(time, poses)

LiveTickSampleInvalid(time, poses) == LiveDue(time) /\ TickSampleInvalid(time, poses)

LiveTickSampleCollected(time, poses) == LiveDue(time) /\ TickSampleCollected(time, poses)

LiveTickReject(time, poses) == LiveDue(time) /\ TickReject(time, poses)

LiveTickCommit(time, poses) == LiveDue(time) /\ TickCommit(time, poses)

\* A tick of a running session that gets past the rate limit: its time is
\* the one time that is due and not rate limited.
SessionTick ==
  LET time == timeLastTick + MaxTickGap
  IN  /\ state \in {"Begin", "Rotation"}
      /\ \/ \E poses \in AllPoseAnswers : LiveTickBeginAbort(time, poses)
         \/ \E poses \in AllPoseAnswers : LiveTickSampleInvalid(time, poses)
         \/ \E poses \in AllPoseAnswers : LiveTickBeginStart(time, poses)
         \/ \E poses \in AllPoseAnswers : LiveTickSampleCollected(time, poses)
         \/ \E poses \in AllPoseAnswers : LiveTickReject(time, poses)
         \/ \E poses \in AllPoseAnswers : LiveTickCommit(time, poses)

NextLive ==
  \/ LiveStartCalibration
  \/ \E time \in LiveTimes : LiveTickRateLimited(time)
  \/ \E time \in LiveTimes, poses \in AllPoseAnswers : LiveTickBeginAbort(time, poses)
  \/ \E time \in LiveTimes, poses \in AllPoseAnswers : LiveTickBeginStart(time, poses)
  \/ \E time \in LiveTimes, poses \in AllPoseAnswers : LiveTickSampleInvalid(time, poses)
  \/ \E time \in LiveTimes, poses \in AllPoseAnswers : LiveTickSampleCollected(time, poses)
  \/ \E time \in LiveTimes, poses \in AllPoseAnswers : LiveTickReject(time, poses)
  \/ \E time \in LiveTimes, poses \in AllPoseAnswers : LiveTickCommit(time, poses)

\* The ticks keep arriving: a session's next tick is not put off for ever.
SpecLive == InitLive /\ [][NextLive]_vars /\ WF_vars(SessionTick)
(***************************************************************************)
(* Properties.                                                             *)
(***************************************************************************)
\* The step is a CalibrationTick call that got past the runtime check and the
\* rate limit.
TickRan ==
  /\ call'.op = "CalibrationTick"
  /\ vrAvailable
  /\ call'.time - timeLastTick >= 50

\* Both devices are tracked in the poses the step refreshed.
BothTracked ==
  /\ referenceID # -1 /\ devicePoses'[referenceID].bPoseIsValid
  /\ targetID # -1 /\ devicePoses'[targetID].bPoseIsValid

\* The step is a tick of state Rotation whose sample fills the buffer.
FillingTick ==
  /\ state = "Rotation"
  /\ TickRan
  /\ BothTracked
  /\ Len(samples) + 1 = sampleCount

\* The buffer a filling tick hands to the solvers.
FilledBuffer ==
  Append(samples, Sample(devicePoses'[referenceID].mDeviceToAbsoluteTracking,
                         devicePoses'[targetID].mDeviceToAbsoluteTracking))

\* The identity, enabled = false request for a device.
IdentityDisabled(id) ==
  [ id |-> id, enabled |-> FALSE, translation |-> <<0, 0, 0>>,
    rotation |-> << <<1, 0, 0>>, <<0, 1, 0>>, <<0, 0, 1>> >>, scale |-> 1 ]

\* The messages the step appended to the log.
Logged == SubSeq(messages', Len(messages) + 1, Len(messages'))

Contains(log, text) == \E i \in 1 .. Len(log) : log[i] = text

RejectionMessage == "\n\n!!! Rejecting low quality calibration !!!"

\* C1: a tick of state Rotation that fills the buffer runs the solvers on that
\* buffer, and when the quality analyzer accepts, the same tick stores the
\* solved rotation and translation, sends exactly one request, with
\* id = targetID and enabled = true, sets validProfile, persists the profile,
\* leaves the state at None and the buffer empty.
C1_AcceptCommits ==
  [][ FillingTick =>
        /\ solved' # NoSolve
        /\ solved'[1] \in Solve(FilledBuffer)
        /\ ~solved'[1].reject =>
             /\ calibratedRotation' = solved'[1].calibratedRotation
             /\ calibratedTranslation' = solved'[1].calibratedTranslation
             /\ Len(sent') = 1
             /\ sent'[1].id = targetID
             /\ sent'[1].enabled = TRUE
             /\ validProfile' = TRUE
             /\ saved' = TRUE
             /\ state' = "None"
             /\ samples' = << >> ]_vars

\* A session of three turned samples was solved, accepted and committed over
\* a profile that was not valid before.
C1_Witness ==
  /\ solved # NoSolve
  /\ ~solved[1].reject
  /\ solved[1].deltas >= 3
  /\ calibratedRotation = <<90, 0, 0>>
  /\ calibratedTranslation = <<20, 0, 0>>
  /\ validProfile /\ saved /\ state = "None" /\ samples = << >>
  /\ Len(sent) = 1 /\ sent[1].id = targetID /\ sent[1].enabled

\* C2: when the quality analyzer finds an RMS error above 0.1 m on a filled
\* buffer, the tick leaves the state at None, clears the buffer, logs the
\* rejection message, leaves validProfile and the calibrated rotation and
\* translation as they were, sends no enabled request and does not persist.
C2_RejectLeavesProfile ==
  [][ ( /\ FillingTick
        /\ solved' # NoSolve
        /\ solved'[1].baseError.num > solved'[1].baseError.den ) =>
        /\ state' = "None"
        /\ samples' = << >>
        /\ Logged # << >>
        /\ Logged[Len(Logged)] = RejectionMessage
        /\ UNCHANGED << validProfile, calibratedRotation, calibratedTranslation >>
        /\ \A i \in 1 .. Len(sent') : ~sent'[i].enabled
        /\ saved' = FALSE ]_vars

\* A filled buffer was rejected while a valid profile was loaded, which stays.
C2_Witness ==
  /\ solved # NoSolve
  /\ solved[1].reject
  /\ solved[1].baseError.num > solved[1].baseError.den
  /\ state = "None" /\ samples = << >>
  /\ messages[Len(messages)] = RejectionMessage
  /\ validProfile
  /\ calibratedRotation = <<0, 90, 0>>
  /\ sent = << >> /\ ~saved

\* C3: after a tick that ends a session (the state goes from Rotation to
\* None by commit, reject or abort) and after a StartCalibration call, the
\* sample buffer is empty.
C3_BufferEmptyAfterSession ==
  [][ ( \/ state = "Rotation" /\ state' = "None"
        \/ call'.op = "StartCalibration" ) =>
        samples' = << >> ]_vars

\* A session was aborted, or restarted, with a sample in the buffer, which
\* the next session will solve with.
C3_StaleBuffer ==
  /\ state \in {"None", "Begin"}
  /\ samples # << >>

\* C4: a filled buffer with fewer than three valid delta-rotation pairs is
\* rejected: the tick ends in state None and leaves validProfile and the
\* calibrated rotation and translation as they were.
C4_FewDeltasRejected ==
  [][ ( /\ FillingTick
        /\ solved' # NoSolve
        /\ solved'[1].deltas < 3 ) =>
        /\ solved'[1].reject
        /\ state' = "None"
        /\ UNCHANGED << validProfile, calibratedRotation, calibratedTranslation >> ]_vars

\* A buffer of samples of two devices at rest, with no delta-rotation pair,
\* was accepted and committed as a valid profile.
C4_StaticCommitted ==
  /\ solved # NoSolve
  /\ solved[1].deltas = 0
  /\ ~solved[1].reject
  /\ validProfile /\ saved
  /\ state = "None"

\* C5: a CalibrationTick(time) call with time - timeLastTick < 0.05, or with
\* the tracking runtime unavailable, leaves the state, the times, the update
\* interval, the poses, the buffer, the calibrated values, validProfile,
\* enabled and the log as they were and sends no request.
C5_RateLimitedTickChangesNothing ==
  [][ ( /\ call'.op = "CalibrationTick"
        /\ \/ ~vrAvailable
           \/ call'.time - timeLastTick < 50 ) =>
        /\ UNCHANGED << state, timeLastTick, timeLastScan, wantedUpdateInterval, devicePoses,
                        samples, calibratedRotation, calibratedTranslation, calibratedScale,
                        validProfile, enabled, messages >>
        /\ sent' = << >> ]_vars

\* A tick came 49 ms after the last one, in the middle of a session.
C5_Witness ==
  /\ vrAvailable
  /\ call = [op |-> "CalibrationTick", time |-> 49]
  /\ timeLastTick = 0
  /\ state = "Begin"

\* C6: a tick of state Begin that is not rate-limited moves to Rotation if and
\* only if both IDs are set and both poses the tick refreshed are valid; then
\* it sends exactly the identity, enabled = false request for targetID and
\* sets wantedUpdateInterval to 0; otherwise it logs each cause and the abort,
\* moves to None and sends nothing.
C6_BeginValidates ==
  [][ (state = "Begin" /\ TickRan) =>
        /\ state' = "Rotation" <=> BothTracked
        /\ BothTracked =>
             /\ sent' = << IdentityDisabled(targetID) >>
             /\ wantedUpdateInterval' = 0
        /\ ~BothTracked =>
             /\ state' = "None"
             /\ sent' = << >>
             /\ Contains(Logged, "Aborting calibration!")
             /\ referenceID = -1 => Contains(Logged, "Missing reference device")
             /\ (referenceID # -1 /\ ~devicePoses'[referenceID].bPoseIsValid)
                  => Contains(Logged, "Reference device is not tracking")
             /\ targetID = -1 => Contains(Logged, "Missing target device")
             /\ (targetID # -1 /\ ~devicePoses'[targetID].bPoseIsValid)
                  => Contains(Logged, "Target device is not tracking") ]_vars

\* A session started: the tick of state Begin found both devices tracked.
C6_Witness ==
  /\ state = "Rotation"
  /\ call.op = "CalibrationTick"
  /\ sent = << IdentityDisabled(targetID) >>
  /\ wantedUpdateInterval = 0
  /\ devicePoses[referenceID].bPoseIsValid /\ devicePoses[targetID].bPoseIsValid

\* C7: a tick of state Rotation on which the reference or the target pose is
\* not valid ends the session: the state becomes None, the buffer is as it
\* was, no solver runs, no request is sent, and validProfile and the
\* calibrated rotation and translation are unchanged.
C7_UntrackedAborts ==
  [][ ( /\ state = "Rotation"
        /\ TickRan
        /\ \/ ~devicePoses'[referenceID].bPoseIsValid
           \/ ~devicePoses'[targetID].bPoseIsValid ) =>
        /\ state' = "None"
        /\ samples' = samples
        /\ solved' = NoSolve
        /\ sent' = << >>
        /\ UNCHANGED << validProfile, calibratedRotation, calibratedTranslation >> ]_vars

\* A session that had started and taken a sample was aborted by a tick that
\* found the target untracked.
C7_Witness ==
  /\ state = "None"
  /\ call.op = "CalibrationTick" /\ call.time = timeLastTick
  /\ Contains(messages, "Starting calibration...")
  /\ messages[Len(messages)] = "Aborting calibration!"
  /\ devicePoses[referenceID].bPoseIsValid /\ ~devicePoses[targetID].bPoseIsValid
  /\ progress[1] >= 1
  /\ sent = << >>

\* The devices that were not of class Invalid in what the last scan read.
Present(reads) == { id \in Devices : reads.deviceClass[id] # "Invalid" }

\* C8: after a scan with a valid profile in which the HMD reported a
\* tracking-system name other than referenceTrackingSystem, enabled is false,
\* every device that is not Invalid, the HMD included, was sent the identity,
\* enabled = false request (and nothing else was sent), and
\* ApplyChaperoneBounds was not called.
C8_HmdMismatchDisables ==
  (scanInput # NoScan) =>
    LET reads == scanInput[1]
    IN  ( /\ reads.validProfile
          /\ reads.deviceClass[0] # "Invalid"
          /\ reads.trackingSystemName[0] # PropError
          /\ reads.trackingSystemName[0] # reads.referenceTrackingSystem ) =>
          /\ enabled = FALSE
          /\ Len(sent) = Cardinality(Present(reads))
          /\ \A id \in Present(reads) : \E i \in 1 .. Len(sent) : sent[i] = IdentityDisabled(id)
          /\ \A i \in 1 .. Len(sent) : sent[i].id \in Present(reads) /\ ~sent[i].enabled
          /\ chaperoneApplied = FALSE

\* A scan met an HMD of the target's tracking system while a valid profile
\* and a stored chaperone that differs from the live one were there.
C8_Witness ==
  /\ scanInput # NoScan
  /\ scanInput[1].validProfile
  /\ scanInput[1].deviceClass[0] = "HMD"
  /\ scanInput[1].trackingSystemName[0] = "lighthouse"
  /\ scanInput[1].trackingSystemName[1] = "lighthouse"
  /\ scanInput[1].chaperone.valid /\ scanInput[1].chaperone.autoApply
  /\ scanInput[1].liveQuadCount # scanInput[1].chaperone.geometry
  /\ Len(sent) >= 3
  /\ ~enabled

\* C9: a scan calls ApplyChaperoneBounds if and only if, after the device
\* loop, enabled is true, chaperone.valid and chaperone.autoApply are true and
\* the live quad count differs from the stored geometry size; it never does
\* when validProfile is false.
C9_ChaperoneReappliedIff ==
  (scanInput # NoScan) =>
    LET reads == scanInput[1]
    IN  /\ chaperoneApplied <=>
             ( /\ enabled
               /\ reads.chaperone.valid
               /\ reads.chaperone.autoApply
               /\ reads.liveQuadCount # reads.chaperone.geometry )
        /\ ~reads.validProfile => ~chaperoneApplied

\* A scan re-applied the stored chaperone over a live one of another size.
C9_Witness ==
  /\ scanInput # NoScan
  /\ chaperoneApplied
  /\ enabled
  /\ scanInput[1].liveQuadCount = 0
  /\ scanInput[1].chaperone.geometry = 8
  /\ liveQuadCount = 8

\* What of the scan's reads the requests are made from: the context fields
\* but ctx.enabled, and the runtime's answers about the devices.
RequestInputs(reads) ==
  << reads.validProfile, reads.referenceTrackingSystem, reads.targetTrackingSystem,
     reads.calibratedRotation, reads.calibratedTranslation, reads.calibratedScale,
     reads.deviceClass, reads.trackingSystemName >>

\* C10: two scans in succession that read the same context fields and the
\* same runtime answers send the same sequence of requests.
C10_ScanIdempotent ==
  (scanInput # NoScan /\ priorScan # NoScan) =>
    ( RequestInputs(scanInput[1]) = RequestInputs(priorScan[1].reads)
        => sent = priorScan[1].sent )

\* Two scans in succession read the same; the first had found ctx.enabled
\* false and set it, and both sent an enabled request.
C10_Witness ==
  /\ scanInput # NoScan /\ priorScan # NoScan
  /\ RequestInputs(scanInput[1]) = RequestInputs(priorScan[1].reads)
  /\ timeLastScan = 200
  /\ enabled
  /\ \E i \in 1 .. Len(sent) : sent[i].enabled
  /\ sent = priorScan[1].sent
\* C11: in every reachable state, whatever calls and ticks came before and
\* whatever number of samples the configuration supplies, the sample buffer
\* holds at most CalCtx.SampleCount() samples.
C11_BufferWithinSampleCount ==
  Len(samples) <= sampleCount

\* A tick of state Rotation has buffered a sample on top of the samples an
\* aborted session left behind, the buffer is longer than the configured
\* number, and the session goes on.
C11_Overrun ==
  /\ state = "Rotation"
  /\ call.op = "CalibrationTick"
  /\ progress[1] = Len(samples)
  /\ Len(samples) > sampleCount

\* One request went to every device that was not Invalid and none to any
\* other device.
OneRequestEach(reads) ==
  /\ \A i \in 1 .. Len(sent) : sent[i].id \in Present(reads)
  /\ \A id \in Present(reads) : Cardinality({ i \in 1 .. Len(sent) : sent[i].id = id }) = 1

\* The request is one a device of the target's tracking system may get under
\* a valid profile: not the HMD, its name read and equal to
\* targetTrackingSystem.
TargetRequest(reads, req) ==
  /\ reads.validProfile
  /\ req.id # HmdIndex
  /\ reads.trackingSystemName[req.id] # PropError
  /\ reads.trackingSystemName[req.id] = reads.targetTrackingSystem

\* C12: in a scan every device that is not Invalid gets exactly one request
\* and an Invalid device none, and a request with enabled = true goes to a
\* device only if validProfile is true, the device is not the HMD, its
\* tracking-system name was read and equals targetTrackingSystem, and the
\* HMD's tracking-system name was read in that scan and equals
\* referenceTrackingSystem.
C12_EnabledOnlyIfHmdRead ==
  (scanInput # NoScan) =>
    LET reads == scanInput[1]
    IN  /\ OneRequestEach(reads)
        /\ \A i \in 1 .. Len(sent) : sent[i].enabled =>
              /\ TargetRequest(reads, sent[i])
              /\ reads.deviceClass[HmdIndex] # "Invalid"
              /\ reads.trackingSystemName[HmdIndex] # PropError
              /\ reads.trackingSystemName[HmdIndex] = reads.referenceTrackingSystem

\* C12, amended: as above, but of the HMD only this: if device 0 is not
\* Invalid and its tracking-system name was read, the name equals
\* referenceTrackingSystem.
C12_EnabledOnlyIfHmdNotOther ==
  (scanInput # NoScan) =>
    LET reads == scanInput[1]
    IN  /\ OneRequestEach(reads)
        /\ \A i \in 1 .. Len(sent) : sent[i].enabled =>
              /\ TargetRequest(reads, sent[i])
              /\ ( /\ reads.deviceClass[HmdIndex] # "Invalid"
                   /\ reads.trackingSystemName[HmdIndex] # PropError ) =>
                   reads.trackingSystemName[HmdIndex] = reads.referenceTrackingSystem

\* A scan under a valid profile could not read the HMD's tracking-system
\* name, sent the HMD the identity and a controller the stored offset.
C12_Witness ==
  /\ scanInput # NoScan
  /\ scanInput[1].deviceClass[HmdIndex] = "HMD"
  /\ scanInput[1].trackingSystemName[HmdIndex] = PropError
  /\ Len(sent) = 3
  /\ sent[1] = IdentityDisabled(HmdIndex)
  /\ sent[2].id = 1 /\ sent[2].enabled
  /\ enabled

\* The step is a tick that aborts: a device is missing or not tracked, the
\* state becomes None, nothing is solved and the buffer is left as it was.
AbortTick ==
  /\ TickRan
  /\ ~BothTracked
  /\ state' = "None"
  /\ solved' = NoSolve
  /\ samples' = samples

\* The step is the tick whose sample fills the buffer: it solves and the
\* state becomes None.
SolveTick ==
  /\ FillingTick
  /\ solved' # NoSolve
  /\ state' = "None"

\* C13: with the runtime available, ticks that keep arriving at least 50 ms
\* apart, no second StartCalibration and a constant SampleCount() >= 1, a
\* session that StartCalibration began comes back to state None; Begin is
\* left for None only by a failed validation, and Rotation is left only by
\* an abort on an untracked device or by the solve of the tick on which the
\* buffer reaches SampleCount() samples, which is the only tick that solves.
C13_SessionEnds ==
  /\ (state \in {"Begin", "Rotation"}) ~> (state = "None")
  /\ [][ /\ (state = "Begin" /\ state' # "Begin") =>
              (TickRan /\ IF BothTracked THEN state' = "Rotation" ELSE AbortTick)
         /\ (state = "Rotation" /\ state' # "Rotation") => (AbortTick \/ SolveTick)
         /\ (solved' # NoSolve) => SolveTick
         /\ (state = "Rotation" /\ FillingTick) => SolveTick ]_vars

\* A second session, begun after an aborted one, was ended by its solve.
C13_Witness ==
  /\ state = "None"
  /\ call.op = "CalibrationTick"
  /\ solved # NoSolve
  /\ progress = << sampleCount, sampleCount >>
  /\ Contains(messages, "Starting calibration...")
  /\ timeLastTick > MaxTickGap * (SampleCount + 1)

====
